---------------------------- MODULE Spec2Model ----------------------------
(***************************************************************************)
(* Model of sleeper_server.py: the request-resolution layer (argument      *)
(* trimming, default league, validation), the fetcher fetch_json and its   *)
(* error channel, and the per-tool formatting of the fetched JSON value.   *)
(*                                                                         *)
(* A Python str is a sequence of one-character strings; a piece of literal *)
(* text of the source and the str() of a number are single atoms, so a     *)
(* text (a URL, a report) is a flat sequence of atoms.                     *)
(***************************************************************************)
EXTENDS Integers, Sequences, FiniteSets, TLC

VARIABLES LEAGUE_ID, pc, tool, args, url, fetches, result, outcome, resp

vars == <<LEAGUE_ID, pc, tool, args, url, fetches, result, outcome, resp>>

(***************************************************************************)
(* Bounds of the model                                                     *)
(***************************************************************************)
MaxLen == 3
MaxWeekLen == 2
MaxStarters == 7
MaxMatchups == 4
MaxPicks == 63

StrsOver(A, n) == UNION {[1..k -> A] : k \in 0..n}

IdStrs == StrsOver({" ", "a"}, MaxLen)
NumStrs == StrsOver({" ", "2", "x"}, MaxLen)
\* week arguments: blank, a week number, not a number, or a mix
WeekStrs == StrsOver({" ", "2", "a"}, MaxWeekLen)
\* values of the environment variable SLEEPER_LEAGUE_ID
DefaultStrs == {<<>>, <<" ">>, <<"L">>, <<" ", "L">>, <<"L", " ">>}

(***************************************************************************)
(* Python str primitives                                                   *)
(***************************************************************************)
IsSpace(c) == c \in {" ", "\t", "\n", "\r"}

RECURSIVE lstrip(_)
lstrip(s) == IF Len(s) = 0 THEN <<>>
             ELSE IF IsSpace(Head(s)) THEN lstrip(Tail(s)) ELSE s

RECURSIVE rstrip(_)
rstrip(s) == IF Len(s) = 0 THEN <<>>
             ELSE IF IsSpace(s[Len(s)]) THEN rstrip(SubSeq(s, 1, Len(s) - 1)) ELSE s

strip(s) == rstrip(lstrip(s))

DigitChars == <<"0", "1", "2", "3", "4", "5", "6", "7", "8", "9">>

IsDigit(c) == \E d \in 1..10 : DigitChars[d] = c

DigitVal(c) == (CHOOSE d \in 1..10 : DigitChars[d] = c) - 1

\* the text int() reads once whitespace and the sign are off
IntBody(s) == LET b == strip(s)
              IN  IF Len(b) > 0 /\ b[1] \in {"+", "-"} THEN Tail(b) ELSE b

\* int(s) of a str raises ValueError unless s is [ws][sign]digits[ws],
\* single underscores allowed between digits
int_ok(s) == LET u == IntBody(s)
             IN  /\ Len(u) > 0
                 /\ IsDigit(u[1])
                 /\ IsDigit(u[Len(u)])
                 /\ \A i \in 1..Len(u) : IsDigit(u[i]) \/ u[i] = "_"
                 /\ \A i \in 1..(Len(u) - 1) : ~(u[i] = "_" /\ u[i + 1] = "_")

RECURSIVE DigitsVal(_, _)
DigitsVal(u, acc) == IF Len(u) = 0 THEN acc
                     ELSE IF Head(u) = "_" THEN DigitsVal(Tail(u), acc)
                     ELSE DigitsVal(Tail(u), 10 * acc + DigitVal(Head(u)))

int_val(s) == LET b == strip(s)
                  v == DigitsVal(IntBody(s), 0)
              IN  IF Len(b) > 0 /\ b[1] = "-" THEN 0 - v ELSE v

\* str(n) of an int, one atom
str_int(n) == <<ToString(n)>>

RECURSIVE join(_, _)
join(sep, items) == IF Len(items) = 0 THEN <<>>
                    ELSE IF Len(items) = 1 THEN items[1]
                    ELSE items[1] \o sep \o join(sep, Tail(items))

(***************************************************************************)
(* JSON values as response.json() returns them                             *)
(***************************************************************************)
JNull == [t |-> "null"]
JBool(b) == [t |-> "bool", v |-> b]
JNum(n) == [t |-> "num", v |-> n]
JStr(s) == [t |-> "str", v |-> s]
JList(l) == [t |-> "list", v |-> l]
\* a dict keeps insertion order: a sequence of key/value pairs, keys unique
JObj(pairs) == [t |-> "obj", v |-> pairs]
P(name, v) == [k |-> <<name>>, v |-> v]

IsObj(x) == x.t = "obj"

\* bool(x)
Truthy(x) == CASE x.t = "null" -> FALSE
               [] x.t = "bool" -> x.v
               [] x.t = "num" -> x.v # 0
               [] OTHER -> Len(x.v) > 0

HasKey(x, key) == IsObj(x) /\ \E i \in 1..Len(x.v) : x.v[i].k = key

\* x.get(key, d) of a dict
GetKey(x, key, d) == IF HasKey(x, key)
                     THEN x.v[CHOOSE i \in 1..Len(x.v) : x.v[i].k = key].v
                     ELSE d

Get(x, name, d) == GetKey(x, <<name>>, d)

HasLen(x) == x.t \in {"str", "list", "obj"}

\* what "for e in x" yields
Items(x) == CASE x.t = "list" -> x.v
              [] x.t = "obj" -> [i \in 1..Len(x.v) |-> JStr(x.v[i].k)]
              [] x.t = "str" -> [i \in 1..Len(x.v) |-> JStr(<<x.v[i]>>)]
              [] OTHER -> <<>>

\* str(x) as an f-string field renders it; a container renders as one atom
PyStr(x) == CASE x.t = "null" -> <<"None">>
              [] x.t = "bool" -> IF x.v THEN <<"True">> ELSE <<"False">>
              [] x.t = "num" -> str_int(x.v)
              [] x.t = "str" -> x.v
              [] x.t = "list" -> <<"[", ToString(Len(x.v)), " items]">>
              [] OTHER -> <<"{", ToString(Len(x.v)), " keys}">>

NA == JStr(<<"N/A">>)
TBD == JStr(<<"TBD">>)
Zero == JNum(0)
EmptyStr == JStr(<<>>)
EmptyObj == JObj(<<>>)
EmptyList == JList(<<>>)


(***************************************************************************)
(* Outcome of evaluating Python code: a text, or a raised exception        *)
(***************************************************************************)
Ok(text) == [exc |-> "", msg |-> <<>>, text |-> text]
Raise(kind, msg) == [exc |-> kind, msg |-> msg, text |-> <<>>]

\* statements in sequence: the first exception ends the evaluation
Then(a, b) == IF a.exc # "" THEN a
              ELSE IF b.exc # "" THEN b
              ELSE Ok(a.text \o b.text)

\* the concatenation of texts[lo..hi]
RECURSIVE Concat(_, _, _)
Concat(texts, lo, hi) ==
    IF lo > hi THEN <<>>
    ELSE IF lo = hi THEN texts[lo]
    ELSE LET mid == (lo + hi) \div 2
         IN  Concat(texts, lo, mid) \o Concat(texts, mid + 1, hi)

\* a run of statements, each adding to the text
CatAll(rs) ==
    IF \E i \in 1..Len(rs) : rs[i].exc # ""
    THEN rs[CHOOSE i \in 1..Len(rs) : rs[i].exc # "" /\ \A j \in 1..(i - 1) : rs[j].exc = ""]
    ELSE Ok(Concat([i \in 1..Len(rs) |-> rs[i].text], 1, Len(rs)))

PyType(x) == CASE x.t = "null" -> "NoneType"
               [] x.t = "bool" -> "bool"
               [] x.t = "num" -> "int"
               [] x.t = "str" -> "str"
               [] x.t = "list" -> "list"
               [] OTHER -> "dict"

AttrErr(x, attr) ==
    Raise("AttributeError", <<"'", PyType(x), "' object has no attribute '", attr, "'">>)

\* x.get(...) on a value that may not be a dict; str, list, int have no get
NeedsGet(x, r) == IF IsObj(x) THEN r ELSE AttrErr(x, "get")

\* len(x)
len(x) == IF HasLen(x) THEN Ok(str_int(Len(x.v)))
          ELSE Raise("TypeError", <<"object of type '", PyType(x), "' has no len()">>)

\* "for e in x" over a value that may not be iterable
NeedsIter(x, r) == IF HasLen(x) THEN r
                   ELSE Raise("TypeError", <<"'", PyType(x), "' object is not iterable">>)

\* x[:n]
CanSlice(x) == x.t \in {"str", "list"}
Slice(x, n) == [t |-> x.t, v |-> SubSeq(x.v, 1, IF Len(x.v) < n THEN Len(x.v) ELSE n)]
SliceErr(x) == Raise("TypeError", <<"'", PyType(x), "' object is not subscriptable">>)

\* sep.join(x): x iterable, every item a str
str_join(sep, x) ==
    IF ~HasLen(x) THEN Raise("TypeError", <<"can only join an iterable">>)
    ELSE LET items == Items(x)
         IN  IF \E i \in 1..Len(items) : items[i].t # "str"
             THEN Raise("TypeError", <<"sequence item: expected str instance">>)
             ELSE Ok(join(sep, [i \in 1..Len(items) |-> items[i].v]))

LowerChars == <<"a", "b", "c", "d", "e", "f", "g", "h", "i", "j", "k", "l", "m",
                "n", "o", "p", "q", "r", "s", "t", "u", "v", "w", "x", "y", "z">>
UpperChars == <<"A", "B", "C", "D", "E", "F", "G", "H", "I", "J", "K", "L", "M",
                "N", "O", "P", "Q", "R", "S", "T", "U", "V", "W", "X", "Y", "Z">>

\* str.upper()
upper(s) == [i \in 1..Len(s) |->
               IF \E j \in 1..26 : LowerChars[j] = s[i]
               THEN UpperChars[CHOOSE j \in 1..26 : LowerChars[j] = s[i]]
               ELSE s[i]]

(***************************************************************************)
(* Literal text of the source. The emoji of the source are written in      *)
(* ASCII: FAIL is U+274C, NONE is U+1F4ED.                                 *)
(***************************************************************************)
BASE_URL == "https://api.sleeper.app/v1"
FAIL == "(x)"
NONE == "(empty)"

ELLIPSIS == "..."
STARTERS_SHOWN == 5
PICKS_SHOWN == 50
DEFAULT_LOOKBACK == 24
DEFAULT_LIMIT == 25

(***************************************************************************)
(* The fetcher. A response is a 2xx with a JSON value, a non-2xx status    *)
(* with a body, or a failure of the transport or of response.json().       *)
(***************************************************************************)
RespOk(j) == [kind |-> "ok", json |-> j]
RespHttp(status, body) == [kind |-> "http", status |-> status, body |-> body]
RespTransport(msg) == [kind |-> "transport", msg |-> msg]

\* mutant: the status error is caught by the general clause as well
fetch_json_rewrapped(r) ==
    CASE r.kind = "ok" -> [exc |-> "", msg |-> <<>>, val |-> r.json]
      [] r.kind = "http" ->
            [exc |-> "Exception",
             msg |-> <<"Request failed: ", "API Error ">> \o str_int(r.status),
             val |-> JNull]
      [] OTHER ->
            [exc |-> "Exception", msg |-> <<"Request failed: ">> \o r.msg, val |-> JNull]

fetch_json(r) ==
    CASE r.kind = "ok" -> [exc |-> "", msg |-> <<>>, val |-> r.json]
      [] r.kind = "http" ->
            [exc |-> "Exception",
             msg |-> <<"API Error ">> \o str_int(r.status) \o <<": ">> \o r.body,
             val |-> JNull]
      [] OTHER ->
            [exc |-> "Exception", msg |-> <<"Request failed: ">> \o r.msg, val |-> JNull]

(***************************************************************************)
(* Formatters                                                              *)
(***************************************************************************)
format_user(user) ==
    IF ~Truthy(user) THEN Ok(<<"No user data">>)
    ELSE NeedsGet(user,
           Ok(<<"User: ">> \o PyStr(Get(user, "display_name", NA))
              \o <<" (@">> \o PyStr(Get(user, "username", NA)) \o <<")\n">>
              \o <<"- User ID: ">> \o PyStr(Get(user, "user_id", NA)) \o <<"\n">>
              \o <<"- Avatar: ">> \o PyStr(Get(user, "avatar", NA))))

format_league(league) ==
    IF ~Truthy(league) THEN Ok(<<"No league data">>)
    ELSE NeedsGet(league,
           Ok(<<"League: ">> \o PyStr(Get(league, "name", NA)) \o <<"\n">>
              \o <<"- League ID: ">> \o PyStr(Get(league, "league_id", NA)) \o <<"\n">>
              \o <<"- Season: ">> \o PyStr(Get(league, "season", NA)) \o <<"\n">>
              \o <<"- Status: ">> \o PyStr(Get(league, "status", NA)) \o <<"\n">>
              \o <<"- Sport: ">> \o PyStr(Get(league, "sport", NA)) \o <<"\n">>
              \o <<"- Total Rosters: ">> \o PyStr(Get(league, "total_rosters", NA)) \o <<"\n">>
              \o <<"- Draft ID: ">> \o PyStr(Get(league, "draft_id", NA))))

\* mutant: the marker is added from 5 starters on
starters_text_from_five(starters) ==
    IF ~CanSlice(starters) THEN SliceErr(starters)
    ELSE Then(str_join(<<", ">>, Slice(starters, STARTERS_SHOWN)),
              Ok(IF Len(starters.v) >= STARTERS_SHOWN THEN <<ELLIPSIS>> ELSE <<>>))

\* ", ".join(starters[:5]) + ("..." if len(starters) > 5 else "")
starters_text(starters) ==
    IF ~CanSlice(starters) THEN SliceErr(starters)
    ELSE Then(str_join(<<", ">>, Slice(starters, STARTERS_SHOWN)),
              Ok(IF Len(starters.v) > STARTERS_SHOWN THEN <<ELLIPSIS>> ELSE <<>>))

format_roster(roster, index) ==
    NeedsGet(roster,
      LET settings == Get(roster, "settings", EmptyObj)
      IN  CatAll(<<
            Ok(<<"Roster ">> \o str_int(index + 1) \o <<" (ID: ">>
               \o PyStr(Get(roster, "roster_id", NA)) \o <<")\n">>
               \o <<"- Owner: ">> \o PyStr(Get(roster, "owner_id", NA)) \o <<"\n">>),
            NeedsGet(settings,
              Ok(<<"- Record: ">> \o PyStr(Get(settings, "wins", Zero)) \o <<"W - ">>
                 \o PyStr(Get(settings, "losses", Zero)) \o <<"L - ">>
                 \o PyStr(Get(settings, "ties", Zero)) \o <<"T\n">>
                 \o <<"- Points For: ">> \o PyStr(Get(settings, "fpts", Zero)) \o <<".">>
                 \o PyStr(Get(settings, "fpts_decimal", Zero)) \o <<"\n">>
                 \o <<"- Points Against: ">> \o PyStr(Get(settings, "fpts_against", Zero))
                 \o <<".">> \o PyStr(Get(settings, "fpts_against_decimal", Zero)) \o <<"\n">>)),
            Ok(<<"- Players: ">>),
            len(Get(roster, "players", EmptyList)),
            Ok(<<" total\n", "- Starters: ">>),
            starters_text(Get(roster, "starters", EmptyList)) >>))

(***************************************************************************)
(* The tools up to their "await fetch_json(url)": either the tool returns  *)
(* a text at once, or it requests a URL.                                   *)
(***************************************************************************)
Return(why, text) == [k |-> "return", why |-> why, text |-> text, url |-> <<>>]
Request(u) == [k |-> "request", why |-> "", text |-> <<>>, url |-> u]
Propagate(kind) == [k |-> "raise", why |-> kind, text |-> <<>>, url |-> <<>>]

LEAGUE_REQUIRED ==
    <<FAIL, " Error: League ID is required (provide league_id or set SLEEPER_LEAGUE_ID environment variable)">>
WEEK_REQUIRED == <<FAIL, " Error: Week number is required">>
USER_REQUIRED == <<FAIL, " Error: User ID is required">>
DRAFT_REQUIRED == <<FAIL, " Error: Draft ID is required">>

\* mutant: lid = league_id or LEAGUE_ID, nothing trimmed
lid_untrimmed(league_id) == IF Len(league_id) > 0 THEN league_id ELSE LEAGUE_ID

\* mutant: lid = league_id.strip() or LEAGUE_ID
lid_default_untrimmed(league_id) ==
    IF Len(strip(league_id)) > 0 THEN strip(league_id) ELSE LEAGUE_ID

\* lid = league_id.strip() or LEAGUE_ID.strip()
lid(league_id) == IF Len(strip(league_id)) > 0 THEN strip(league_id) ELSE strip(LEAGUE_ID)

\* the tools that take only league_id: path is what follows /league/{lid}
league_request(league_id, path) ==
    IF Len(lid(league_id)) = 0 THEN Return("missing", LEAGUE_REQUIRED)
    ELSE Request(<<BASE_URL, "/league/">> \o lid(league_id) \o path)

\* the tools that take league_id and week
league_week_request(league_id, week, path) ==
    IF Len(lid(league_id)) = 0 THEN Return("missing", LEAGUE_REQUIRED)
    ELSE IF Len(strip(week)) = 0 THEN Return("missing", WEEK_REQUIRED)
    ELSE Request(<<BASE_URL, "/league/">> \o lid(league_id) \o path \o week)

get_user_request(username) ==
    IF Len(strip(username)) = 0
    THEN Return("missing", <<FAIL, " Error: Username or user ID is required">>)
    ELSE Request(<<BASE_URL, "/user/">> \o username)

get_user_leagues_request(user_id, sport, season) ==
    IF Len(strip(user_id)) = 0 THEN Return("missing", USER_REQUIRED)
    ELSE Request(<<BASE_URL, "/user/">> \o user_id \o <<"/leagues/">> \o sport \o <<"/">> \o season)

get_user_drafts_request(user_id, sport, season) ==
    IF Len(strip(user_id)) = 0 THEN Return("missing", USER_REQUIRED)
    ELSE Request(<<BASE_URL, "/user/">> \o user_id \o <<"/drafts/">> \o sport \o <<"/">> \o season)

get_league_request(league_id) == league_request(league_id, <<>>)
get_league_rosters_request(league_id) == league_request(league_id, <<"/rosters">>)
get_league_users_request(league_id) == league_request(league_id, <<"/users">>)
get_winners_bracket_request(league_id) == league_request(league_id, <<"/winners_bracket">>)
get_losers_bracket_request(league_id) == league_request(league_id, <<"/losers_bracket">>)
get_traded_picks_request(league_id) == league_request(league_id, <<"/traded_picks">>)
get_league_drafts_request(league_id) == league_request(league_id, <<"/drafts">>)
get_league_matchups_request(league_id, week) ==
    league_week_request(league_id, week, <<"/matchups/">>)
get_league_transactions_request(league_id, week) ==
    league_week_request(league_id, week, <<"/transactions/">>)

get_nfl_state_request == Request(<<BASE_URL, "/state/nfl">>)

draft_request(draft_id, path) ==
    IF Len(strip(draft_id)) = 0 THEN Return("missing", DRAFT_REQUIRED)
    ELSE Request(<<BASE_URL, "/draft/">> \o draft_id \o path)

get_draft_request(draft_id) == draft_request(draft_id, <<>>)
get_draft_picks_request(draft_id) == draft_request(draft_id, <<"/picks">>)
get_draft_traded_picks_request(draft_id) == draft_request(draft_id, <<"/traded_picks">>)

ADD == <<"a", "d", "d">>
DROP == <<"d", "r", "o", "p">>

\* mutant: trend_type.strip() not in ["add", "drop"]
trend_type_ok_trimmed(trend_type) == strip(trend_type) \in {ADD, DROP}

\* trend_type not in ["add", "drop"]
trend_type_ok(trend_type) == trend_type \in {ADD, DROP}

\* int(s)
int(s) == IF int_ok(s) THEN [exc |-> "", val |-> int_val(s)]
          ELSE [exc |-> "ValueError", val |-> 0]

\* mutant: a text that does not parse falls back to d
int_or_lenient(s, d) == IF int_ok(s) THEN int(s) ELSE [exc |-> "", val |-> d]

\* int(s) if s.strip() else d
int_or(s, d) == IF Len(strip(s)) > 0 THEN int(s) ELSE [exc |-> "", val |-> d]

trending_url(trend_type, lookback, lim) ==
    <<BASE_URL, "/players/nfl/trending/">> \o trend_type
       \o <<"?lookback_hours=">> \o str_int(lookback) \o <<"&limit=">> \o str_int(lim)

get_trending_players_request(trend_type, lookback_hours, limit) ==
    IF ~trend_type_ok(trend_type)
    THEN Return("invalid", <<FAIL, " Error: trend_type must be 'add' or 'drop'">>)
    ELSE LET lookback == int_or(lookback_hours, DEFAULT_LOOKBACK)
             lim == int_or(limit, DEFAULT_LIMIT)
             exc == IF lookback.exc # "" THEN lookback.exc ELSE lim.exc
         IN  IF exc = "ValueError"
             THEN Return("invalid", <<FAIL, " Error: lookback_hours and limit must be valid numbers">>)
             ELSE IF exc # "" THEN Propagate(exc)
             ELSE Request(trending_url(trend_type, lookback.val, lim.val))

search_player_info_request(player_id) ==
    IF Len(strip(player_id)) = 0
    THEN Return("missing", <<FAIL, " Error: Player ID is required">>)
    ELSE Request(<<BASE_URL, "/players/nfl">>)

(***************************************************************************)
(* The tools after the fetch: the rest of the try block, given the JSON    *)
(* value fetch_json returned.                                              *)
(***************************************************************************)
\* for i, e in enumerate(x): result += F(e, i), i counted from 1
ForEach(F(_, _), x) ==
    NeedsIter(x, LET items == Items(x)
                 IN  CatAll([i \in 1..Len(items) |-> F(items[i], i)]))

get_user_body(username, user) == Then(Ok(<<"User Found:\n">>), format_user(user))

league_entry(league, i) ==
    CatAll(<<Ok(str_int(i) \o <<". ">>), format_league(league), Ok(<<"\n\n">>)>>)

get_user_leagues_body(user_id, sport, season, leagues) ==
    IF ~Truthy(leagues)
    THEN Ok(<<NONE, " No leagues found for user ">> \o user_id \o <<" in ">>
            \o sport \o <<" ">> \o season)
    ELSE CatAll(<<Ok(<<"Found ">>), len(leagues), Ok(<<" league(s):\n\n">>),
                  ForEach(league_entry, leagues)>>)

get_league_body(league) ==
    CatAll(<<
      Ok(<<"League Details:\n">>), format_league(league), Ok(<<"\n\n">>),
      NeedsGet(league,
        IF ~Truthy(Get(league, "settings", JNull)) THEN Ok(<<>>)
        ELSE LET settings == Get(league, "settings", JNull)
             IN  NeedsGet(settings,
                   Ok(<<"Settings:\n", "- Playoff Teams: ">>
                      \o PyStr(Get(settings, "playoff_teams", NA)) \o <<"\n", "- Waiver Type: ">>
                      \o PyStr(Get(settings, "waiver_type", NA)) \o <<"\n", "- Trade Deadline: Week ">>
                      \o PyStr(Get(settings, "trade_deadline", NA)) \o <<"\n">>))) >>)

roster_entry(roster, i) == Then(format_roster(roster, i - 1), Ok(<<"\n\n">>))

get_league_rosters_body(league_id, rosters) ==
    IF ~Truthy(rosters)
    THEN Ok(<<NONE, " No rosters found for league ">> \o lid(league_id))
    ELSE CatAll(<<Ok(<<"Found ">>), len(rosters), Ok(<<" roster(s):\n\n">>),
                  ForEach(roster_entry, rosters)>>)

user_entry(user, i) ==
    NeedsGet(user,
      LET metadata == Get(user, "metadata", EmptyObj)
      IN  NeedsGet(metadata,
            Ok(str_int(i) \o <<". ">> \o PyStr(Get(user, "display_name", NA)) \o <<" (@">>
               \o PyStr(Get(user, "username", NA)) \o <<") ">>
               \o (IF Truthy(Get(user, "is_owner", JNull)) THEN <<"Commissioner">> ELSE <<>>)
               \o <<"\n", "   Team: ">>
               \o PyStr(Get(metadata, "team_name", JStr(<<"No team name">>)))
               \o <<"\n", "   User ID: ">> \o PyStr(Get(user, "user_id", NA)) \o <<"\n\n">>)))

get_league_users_body(league_id, users) ==
    IF ~Truthy(users)
    THEN Ok(<<NONE, " No users found for league ">> \o lid(league_id))
    ELSE CatAll(<<Ok(<<"Found ">>), len(users), Ok(<<" user(s):\n\n">>),
                  ForEach(user_entry, users)>>)

\* == of two JSON scalars
JEq(a, b) == a.t = b.t /\ (a.t = "null" \/ a.v = b.v)

Hashable(x) == x.t \notin {"list", "obj"}

\* mutant: a new matchup_id is put in front of the ids seen before
RECURSIVE group_matchups_newest_first(_, _)
group_matchups_newest_first(matchups, matchup_dict) ==
    IF Len(matchups) = 0 THEN matchup_dict
    ELSE LET matchup == Head(matchups)
             mid == Get(matchup, "matchup_id", JNull)
             d == IF \E i \in 1..Len(matchup_dict) : JEq(matchup_dict[i].k, mid)
                  THEN matchup_dict
                  ELSE <<[k |-> mid, v |-> <<>>]>> \o matchup_dict
         IN  group_matchups_newest_first(Tail(matchups),
               [i \in 1..Len(d) |->
                  IF JEq(d[i].k, mid) THEN [k |-> mid, v |-> Append(d[i].v, matchup)]
                  ELSE d[i]])

\* matchup_dict after the grouping loop: an insertion-ordered dict, as the
\* sequence of its (matchup_id, teams) items
RECURSIVE group_matchups(_, _)
group_matchups(matchups, matchup_dict) ==
    IF Len(matchups) = 0 THEN matchup_dict
    ELSE LET matchup == Head(matchups)
             mid == Get(matchup, "matchup_id", JNull)
             d == IF \E i \in 1..Len(matchup_dict) : JEq(matchup_dict[i].k, mid)
                  THEN matchup_dict
                  ELSE Append(matchup_dict, [k |-> mid, v |-> <<>>])
         IN  group_matchups(Tail(matchups),
               [i \in 1..Len(d) |->
                  IF JEq(d[i].k, mid) THEN [k |-> mid, v |-> Append(d[i].v, matchup)]
                  ELSE d[i]])

team_entry(team, i) ==
    NeedsGet(team,
      LET points == Get(team, "points", Zero)
          custom == Get(team, "custom_points", JNull)
      IN  CatAll(<<
            Ok(<<"  Roster ">> \o PyStr(Get(team, "roster_id", NA)) \o <<": ">>
               \o (IF custom.t # "null" THEN PyStr(custom) \o <<" (override)">>
                   ELSE PyStr(points))
               \o <<" pts\n", "    Starters: ">>),
            starters_text(Get(team, "starters", EmptyList)),
            Ok(<<"\n">>) >>))

group_entry(group, i) ==
    CatAll(<<Ok(<<"Matchup ">> \o PyStr(group.k) \o <<":\n">>),
             ForEach(team_entry, JList(group.v)),
             Ok(<<"\n">>)>>)

get_league_matchups_body(league_id, week, matchups) ==
    IF ~Truthy(matchups)
    THEN Ok(<<NONE, " No matchups found for league ">> \o lid(league_id) \o <<", week ">> \o week)
    ELSE NeedsIter(matchups,
           LET items == Items(matchups)
           IN  IF \E i \in 1..Len(items) : ~IsObj(items[i])
               THEN AttrErr(items[CHOOSE i \in 1..Len(items) :
                                    ~IsObj(items[i]) /\ \A j \in 1..(i - 1) : IsObj(items[j])],
                            "get")
               ELSE IF \E i \in 1..Len(items) : ~Hashable(Get(items[i], "matchup_id", JNull))
               THEN Raise("TypeError", <<"unhashable type">>)
               ELSE Then(Ok(<<"Week ">> \o week \o <<" Matchups:\n\n">>),
                         ForEach(group_entry, JList(group_matchups(items, <<>>)))))

\* winner != "TBD" and winner is not None
winner_known(winner) == ~JEq(winner, TBD) /\ winner.t # "null"

bracket_match(match, with_place) ==
    NeedsGet(match,
      LET winner == Get(match, "w", TBD)
          placement == Get(match, "p", EmptyStr)
      IN  Ok(<<"Round ">> \o PyStr(Get(match, "r", NA)) \o <<", Match ">>
             \o PyStr(Get(match, "m", NA))
             \o (IF with_place /\ Truthy(placement)
                 THEN <<" (for place ">> \o PyStr(placement) \o <<")">> ELSE <<>>)
             \o <<":\n", "  Team 1: Roster ">> \o PyStr(Get(match, "t1", TBD))
             \o <<"\n", "  Team 2: Roster ">> \o PyStr(Get(match, "t2", TBD)) \o <<"\n">>
             \o (IF winner_known(winner)
                 THEN <<"  Winner: Roster ">> \o PyStr(winner) \o <<"\n">> ELSE <<>>)
             \o <<"\n">>))

winners_match(match, i) == bracket_match(match, FALSE)
losers_match(match, i) == bracket_match(match, TRUE)

get_winners_bracket_body(league_id, bracket) ==
    IF ~Truthy(bracket)
    THEN Ok(<<NONE, " No playoff bracket found for league ">> \o lid(league_id))
    ELSE Then(Ok(<<"Winners Bracket:\n\n">>), ForEach(winners_match, bracket))

get_losers_bracket_body(league_id, bracket) ==
    IF ~Truthy(bracket)
    THEN Ok(<<NONE, " No losers bracket found for league ">> \o lid(league_id))
    ELSE Then(Ok(<<"Losers Bracket:\n\n">>), ForEach(losers_match, bracket))

\* ', '.join([f'Player {pid} {word} Roster {rid}' for pid, rid in moves.items()])
moves_text(label, word, moves) ==
    IF ~Truthy(moves) THEN Ok(<<>>)
    ELSE IF ~IsObj(moves) THEN AttrErr(moves, "items")
    ELSE Ok(<<label>>
            \o join(<<", ">>, [i \in 1..Len(moves.v) |->
                 <<"Player ">> \o moves.v[i].k \o <<word>> \o PyStr(moves.v[i].v)])
            \o <<"\n">>)

transaction_entry(txn, i) ==
    NeedsGet(txn,
      LET txn_type == Get(txn, "type", JStr(<<"unknown">>))
          draft_picks == Get(txn, "draft_picks", JNull)
      IN  IF txn_type.t # "str" THEN AttrErr(txn_type, "upper")
          ELSE CatAll(<<
                 Ok(str_int(i) \o <<". Type: ">> \o upper(txn_type.v) \o <<" - Status: ">>
                    \o PyStr(Get(txn, "status", JStr(<<"unknown">>))) \o <<"\n">>),
                 moves_text("   Adds: ", " to Roster ", Get(txn, "adds", JNull)),
                 moves_text("   Drops: ", " from Roster ", Get(txn, "drops", JNull)),
                 IF ~Truthy(draft_picks) THEN Ok(<<>>)
                 ELSE CatAll(<<Ok(<<"   Draft Picks: ">>), len(draft_picks),
                               Ok(<<" pick(s) involved\n">>)>>),
                 Ok(<<"\n">>) >>))

get_league_transactions_body(league_id, week, transactions) ==
    IF ~Truthy(transactions)
    THEN Ok(<<NONE, " No transactions found for league ">> \o lid(league_id)
            \o <<", week ">> \o week)
    ELSE CatAll(<<Ok(<<"Week ">> \o week \o <<" Transactions (">>), len(transactions),
                  Ok(<<" total):\n\n">>), ForEach(transaction_entry, transactions)>>)

traded_pick_entry(pick, i) ==
    NeedsGet(pick,
      Ok(str_int(i) \o <<". ">> \o PyStr(Get(pick, "season", NA)) \o <<" Round ">>
         \o PyStr(Get(pick, "round", NA)) \o <<"\n", "   Original Owner: Roster ">>
         \o PyStr(Get(pick, "roster_id", NA)) \o <<"\n", "   Previous Owner: Roster ">>
         \o PyStr(Get(pick, "previous_owner_id", NA)) \o <<"\n", "   Current Owner: Roster ">>
         \o PyStr(Get(pick, "owner_id", NA)) \o <<"\n\n">>))

get_traded_picks_body(league_id, picks) ==
    IF ~Truthy(picks)
    THEN Ok(<<NONE, " No traded picks found for league ">> \o lid(league_id))
    ELSE CatAll(<<Ok(<<"Traded Draft Picks (">>), len(picks), Ok(<<" total):\n\n">>),
                  ForEach(traded_pick_entry, picks)>>)

get_nfl_state_body(state) ==
    NeedsGet(state,
      Ok(<<"NFL State:\n", "- Current Week: ">> \o PyStr(Get(state, "week", NA))
         \o <<"\n", "- Display Week: ">> \o PyStr(Get(state, "display_week", NA))
         \o <<"\n", "- Season: ">> \o PyStr(Get(state, "season", NA))
         \o <<"\n", "- Season Type: ">> \o PyStr(Get(state, "season_type", NA))
         \o <<"\n", "- Season Start: ">> \o PyStr(Get(state, "season_start_date", NA))
         \o <<"\n", "- League Season: ">> \o PyStr(Get(state, "league_season", NA))
         \o <<"\n", "- League Create Season: ">> \o PyStr(Get(state, "league_create_season", NA))
         \o <<"\n", "- Previous Season: ">> \o PyStr(Get(state, "previous_season", NA))))

user_draft_entry(draft, i) ==
    NeedsGet(draft,
      Ok(str_int(i) \o <<". Draft ID: ">> \o PyStr(Get(draft, "draft_id", NA))
         \o <<"\n", "   Type: ">> \o PyStr(Get(draft, "type", NA))
         \o <<"\n", "   Status: ">> \o PyStr(Get(draft, "status", NA))
         \o <<"\n", "   League ID: ">> \o PyStr(Get(draft, "league_id", NA))
         \o <<"\n", "   Season: ">> \o PyStr(Get(draft, "season", NA)) \o <<"\n\n">>))

get_user_drafts_body(user_id, sport, season, drafts) ==
    IF ~Truthy(drafts)
    THEN Ok(<<NONE, " No drafts found for user ">> \o user_id \o <<" in ">>
            \o sport \o <<" ">> \o season)
    ELSE CatAll(<<Ok(<<"Found ">>), len(drafts), Ok(<<" draft(s):\n\n">>),
                  ForEach(user_draft_entry, drafts)>>)

league_draft_entry(draft, i) ==
    NeedsGet(draft,
      LET settings == Get(draft, "settings", EmptyObj)
          metadata == Get(draft, "metadata", EmptyObj)
      IN  CatAll(<<
            Ok(str_int(i) \o <<". Draft ID: ">> \o PyStr(Get(draft, "draft_id", NA))
               \o <<"\n", "   Type: ">> \o PyStr(Get(draft, "type", NA))
               \o <<"\n", "   Status: ">> \o PyStr(Get(draft, "status", NA))
               \o <<"\n", "   Season: ">> \o PyStr(Get(draft, "season", NA))),
            NeedsGet(settings,
              Ok(<<"\n", "   Teams: ">> \o PyStr(Get(settings, "teams", NA))
                 \o <<"\n", "   Rounds: ">> \o PyStr(Get(settings, "rounds", NA)))),
            NeedsGet(metadata,
              Ok(<<"\n", "   Scoring: ">> \o PyStr(Get(metadata, "scoring_type", NA))
                 \o <<"\n\n">>)) >>))

get_league_drafts_body(league_id, drafts) ==
    IF ~Truthy(drafts)
    THEN Ok(<<NONE, " No drafts found for league ">> \o lid(league_id))
    ELSE CatAll(<<Ok(<<"Found ">>), len(drafts), Ok(<<" draft(s):\n\n">>),
                  ForEach(league_draft_entry, drafts)>>)

get_draft_body(draft) ==
    NeedsGet(draft,
      LET settings == Get(draft, "settings", EmptyObj)
          metadata == Get(draft, "metadata", EmptyObj)
      IN  NeedsGet(settings, NeedsGet(metadata,
            Ok(<<"Draft Details:\n", "- Draft ID: ">> \o PyStr(Get(draft, "draft_id", NA))
               \o <<"\n", "- Type: ">> \o PyStr(Get(draft, "type", NA))
               \o <<"\n", "- Status: ">> \o PyStr(Get(draft, "status", NA))
               \o <<"\n", "- League ID: ">> \o PyStr(Get(draft, "league_id", NA))
               \o <<"\n", "- Season: ">> \o PyStr(Get(draft, "season", NA))
               \o <<"\n", "- Sport: ">> \o PyStr(Get(draft, "sport", NA))
               \o <<"\n\n", "Settings:\n", "- Teams: ">> \o PyStr(Get(settings, "teams", NA))
               \o <<"\n", "- Rounds: ">> \o PyStr(Get(settings, "rounds", NA))
               \o <<"\n", "- Pick Timer: ">> \o PyStr(Get(settings, "pick_timer", NA))
               \o <<" seconds\n", "- Scoring: ">> \o PyStr(Get(metadata, "scoring_type", NA))
               \o <<"\n\n", "Roster Slots:\n", "- QB: ">> \o PyStr(Get(settings, "slots_qb", Zero))
               \o <<"\n", "- RB: ">> \o PyStr(Get(settings, "slots_rb", Zero))
               \o <<"\n", "- WR: ">> \o PyStr(Get(settings, "slots_wr", Zero))
               \o <<"\n", "- TE: ">> \o PyStr(Get(settings, "slots_te", Zero))
               \o <<"\n", "- FLEX: ">> \o PyStr(Get(settings, "slots_flex", Zero))
               \o <<"\n", "- K: ">> \o PyStr(Get(settings, "slots_k", Zero))
               \o <<"\n", "- DEF: ">> \o PyStr(Get(settings, "slots_def", Zero))
               \o <<"\n", "- BN: ">> \o PyStr(Get(settings, "slots_bn", Zero))))))

pick_entry(pick, i) ==
    NeedsGet(pick,
      LET metadata == Get(pick, "metadata", EmptyObj)
      IN  NeedsGet(metadata,
            LET player_name == strip(PyStr(Get(metadata, "first_name", EmptyStr)) \o <<" ">>
                                     \o PyStr(Get(metadata, "last_name", EmptyStr)))
            IN  Ok(<<"Pick ">> \o PyStr(Get(pick, "pick_no", NA)) \o <<" (Round ">>
                   \o PyStr(Get(pick, "round", NA)) \o <<"):\n", "  Player: ">>
                   \o (IF Len(player_name) > 0 THEN player_name ELSE <<"Unknown">>)
                   \o <<" - ">> \o PyStr(Get(metadata, "position", NA)) \o <<" (">>
                   \o PyStr(Get(metadata, "team", NA)) \o <<")\n", "  Roster ID: ">>
                   \o PyStr(Get(pick, "roster_id", NA)) \o <<"\n">>
                   \o (IF Truthy(Get(pick, "is_keeper", JNull)) THEN <<"  Keeper\n">> ELSE <<>>)
                   \o <<"\n">>)))

\* mutant: the summary line is added from 50 picks on
picks_text_from_fifty(picks) ==
    IF ~CanSlice(picks) THEN SliceErr(picks)
    ELSE Then(ForEach(pick_entry, Slice(picks, PICKS_SHOWN)),
              Ok(IF Len(picks.v) >= PICKS_SHOWN
                 THEN <<"... and ">> \o str_int(Len(picks.v) - PICKS_SHOWN) \o <<" more picks\n">>
                 ELSE <<>>))

\* for pick in picks[:50]: ...; if len(picks) > 50: "... and {len(picks) - 50} more picks"
picks_text(picks) ==
    IF ~CanSlice(picks) THEN SliceErr(picks)
    ELSE Then(ForEach(pick_entry, Slice(picks, PICKS_SHOWN)),
              Ok(IF Len(picks.v) > PICKS_SHOWN
                 THEN <<"... and ">> \o str_int(Len(picks.v) - PICKS_SHOWN) \o <<" more picks\n">>
                 ELSE <<>>))

get_draft_picks_body(draft_id, picks) ==
    IF ~Truthy(picks) THEN Ok(<<NONE, " No picks found for draft ">> \o draft_id)
    ELSE CatAll(<<Ok(<<"Draft Picks (">>), len(picks), Ok(<<" total):\n\n">>),
                  picks_text(picks)>>)

draft_traded_pick_entry(pick, i) ==
    NeedsGet(pick,
      Ok(str_int(i) \o <<". ">> \o PyStr(Get(pick, "season", NA)) \o <<" Round ">>
         \o PyStr(Get(pick, "round", NA)) \o <<"\n", "   Original: Roster ">>
         \o PyStr(Get(pick, "roster_id", NA)) \o <<"\n", "   Previous: Roster ">>
         \o PyStr(Get(pick, "previous_owner_id", NA)) \o <<"\n", "   Current: Roster ">>
         \o PyStr(Get(pick, "owner_id", NA)) \o <<"\n\n">>))

get_draft_traded_picks_body(draft_id, picks) ==
    IF ~Truthy(picks) THEN Ok(<<NONE, " No traded picks found for draft ">> \o draft_id)
    ELSE CatAll(<<Ok(<<"Traded Draft Picks (">>), len(picks), Ok(<<" total):\n\n">>),
                  ForEach(draft_traded_pick_entry, picks)>>)

get_trending_players_body(trend_type, lookback_hours, players) ==
    IF ~Truthy(players) THEN Ok(<<NONE, " No trending ">> \o trend_type \o <<" players found">>)
    ELSE LET lookback == int_or(lookback_hours, DEFAULT_LOOKBACK).val
             entry(player, i) ==
                 NeedsGet(player,
                   Ok(str_int(i) \o <<". Player ID: ">> \o PyStr(Get(player, "player_id", NA))
                      \o <<" - ">> \o PyStr(Get(player, "count", Zero)) \o <<" ">>
                      \o trend_type \o <<"s\n">>))
         IN  Then(Ok(<<IF trend_type = ADD THEN "(up)" ELSE "(down)", " Trending ">>
                     \o upper(trend_type) \o <<" Players (Last ">> \o str_int(lookback)
                     \o <<" hours):\n\n">>),
                  ForEach(entry, players))

PLAYER_NOT_FOUND(player_id) == <<FAIL, " Player ID ">> \o player_id \o <<" not found">>

\* player = all_players.get(player_id); if not player: return not found
player_missing(all_players, player_id) == ~Truthy(GetKey(all_players, player_id, JNull))

search_player_info_body(player_id, all_players) ==
    NeedsGet(all_players,
      LET player == GetKey(all_players, player_id, JNull)
      IN  IF player_missing(all_players, player_id) THEN Ok(PLAYER_NOT_FOUND(player_id))
          ELSE NeedsGet(player,
                 CatAll(<<
                   Ok(<<"Player: ">> \o PyStr(Get(player, "first_name", EmptyStr)) \o <<" ">>
                      \o PyStr(Get(player, "last_name", EmptyStr))
                      \o <<"\n", "- Player ID: ">> \o player_id
                      \o <<"\n", "- Position: ">> \o PyStr(Get(player, "position", NA))
                      \o <<"\n", "- Team: ">> \o PyStr(Get(player, "team", NA))
                      \o <<"\n", "- Number: #">> \o PyStr(Get(player, "number", NA))
                      \o <<"\n", "- Status: ">> \o PyStr(Get(player, "status", NA))
                      \o <<"\n", "- Age: ">> \o PyStr(Get(player, "age", NA))
                      \o <<"\n", "- Height: ">> \o PyStr(Get(player, "height", NA))
                      \o <<"\n", "- Weight: ">> \o PyStr(Get(player, "weight", NA))
                      \o <<"\n", "- College: ">> \o PyStr(Get(player, "college", NA))
                      \o <<"\n", "- Years Exp: ">> \o PyStr(Get(player, "years_exp", NA))
                      \o <<"\n", "- Fantasy Positions: ">>),
                   str_join(<<", ">>, Get(player, "fantasy_positions", EmptyList)),
                   Ok(IF Truthy(Get(player, "injury_status", JNull))
                      THEN <<"\n", "Injury Status: ">> \o PyStr(Get(player, "injury_status", NA))
                      ELSE <<>>) >>)))

\* the rest of the try block of tool t, called with args a, on the fetched value j
Body(t, a, j) ==
    CASE t = "get_user" -> get_user_body(a.username, j)
      [] t = "get_user_leagues" -> get_user_leagues_body(a.user_id, a.sport, a.season, j)
      [] t = "get_league" -> get_league_body(j)
      [] t = "get_league_rosters" -> get_league_rosters_body(a.league_id, j)
      [] t = "get_league_users" -> get_league_users_body(a.league_id, j)
      [] t = "get_league_matchups" -> get_league_matchups_body(a.league_id, a.week, j)
      [] t = "get_winners_bracket" -> get_winners_bracket_body(a.league_id, j)
      [] t = "get_losers_bracket" -> get_losers_bracket_body(a.league_id, j)
      [] t = "get_league_transactions" -> get_league_transactions_body(a.league_id, a.week, j)
      [] t = "get_traded_picks" -> get_traded_picks_body(a.league_id, j)
      [] t = "get_nfl_state" -> get_nfl_state_body(j)
      [] t = "get_user_drafts" -> get_user_drafts_body(a.user_id, a.sport, a.season, j)
      [] t = "get_league_drafts" -> get_league_drafts_body(a.league_id, j)
      [] t = "get_draft" -> get_draft_body(j)
      [] t = "get_draft_picks" -> get_draft_picks_body(a.draft_id, j)
      [] t = "get_draft_traded_picks" -> get_draft_traded_picks_body(a.draft_id, j)
      [] t = "get_trending_players" ->
            get_trending_players_body(a.trend_type, a.lookback_hours, j)
      [] OTHER -> search_player_info_body(a.player_id, j)

\* "except Exception" catches every class derived from Exception
IsException(kind) ==
    kind \in {"Exception", "AttributeError", "TypeError", "ValueError", "KeyError"}

\* mutant: only the exception fetch_json raises is caught
handler_narrow(r) == IF r.exc = "" THEN [k |-> "text", text |-> r.text]
                     ELSE IF r.exc = "Exception"
                     THEN [k |-> "text", text |-> <<FAIL, " Error: ">> \o r.msg]
                     ELSE [k |-> "raised", exc |-> r.exc]

\* try: ... except Exception as e: return f"(x) Error: {str(e)}"
handler(r) == IF r.exc = "" THEN [k |-> "text", text |-> r.text]
              ELSE IF IsException(r.exc)
              THEN [k |-> "text", text |-> <<FAIL, " Error: ">> \o r.msg]
              ELSE [k |-> "raised", exc |-> r.exc]

(***************************************************************************)
(* The server: one tool invocation at a time. A tool either returns at     *)
(* once or suspends at "await fetch_json(url)" (pc = "fetching") and       *)
(* finishes when the fetch returns.                                        *)
(***************************************************************************)
NoResult == [k |-> "none"]
NoResp == [kind |-> "none"]

Init ==
    /\ LEAGUE_ID \in DefaultStrs
    /\ pc = "idle"
    /\ tool = "none"
    /\ args = <<>>
    /\ url = <<>>
    /\ fetches = 0
    /\ result = NoResult
    /\ outcome = "none"
    /\ resp = NoResp

\* tool t is called with args a; pre is what its code does up to the fetch
Invoke(t, a, pre) ==
    /\ pc = "idle"
    /\ tool' = t
    /\ args' = a
    /\ resp' = NoResp
    /\ url' = pre.url
    /\ fetches' = IF pre.k = "request" THEN 1 ELSE 0
    /\ pc' = IF pre.k = "request" THEN "fetching" ELSE "returned"
    /\ result' = CASE pre.k = "request" -> NoResult
                   [] pre.k = "return" -> [k |-> "text", text |-> pre.text]
                   [] OTHER -> [k |-> "raised", exc |-> pre.why]
    /\ outcome' = IF pre.k = "request" THEN "pending" ELSE pre.why
    /\ UNCHANGED LEAGUE_ID

\* mutant: a failed request is issued once more before it is reported
Complete_retrying(r) ==
    /\ pc = "fetching"
    /\ LET f == fetch_json(r)
           body == IF f.exc # "" THEN Raise(f.exc, f.msg) ELSE Body(tool, args, f.val)
           again == r.kind # "ok" /\ fetches < 2
       IN  /\ result' = IF again THEN NoResult ELSE handler(body)
           /\ outcome' = CASE again -> "pending"
                           [] r.kind = "http" -> "remote"
                           [] r.kind = "transport" -> "transport"
                           [] body.exc # "" -> "format"
                           [] OTHER -> "ok"
           /\ fetches' = IF again THEN fetches + 1 ELSE fetches
           /\ pc' = IF again THEN "fetching" ELSE "returned"
    /\ resp' = r
    /\ UNCHANGED <<LEAGUE_ID, tool, args, url>>

\* fetch_json comes back with response r and the tool runs to its return
Complete(r) ==
    /\ pc = "fetching"
    /\ LET f == fetch_json(r)
           body == IF f.exc # "" THEN Raise(f.exc, f.msg) ELSE Body(tool, args, f.val)
       IN  /\ result' = handler(body)
           /\ outcome' = CASE r.kind = "http" -> "remote"
                           [] r.kind = "transport" -> "transport"
                           [] body.exc # "" -> "format"
                           [] OTHER -> "ok"
    /\ resp' = r
    /\ pc' = "returned"
    /\ UNCHANGED <<LEAGUE_ID, tool, args, url, fetches>>

\* the caller has the tool's result; the server awaits the next call
tool_returned ==
    /\ pc = "returned"
    /\ pc' = "idle"
    /\ tool' = "none"
    /\ args' = <<>>
    /\ url' = <<>>
    /\ fetches' = 0
    /\ result' = NoResult
    /\ outcome' = "none"
    /\ resp' = NoResp
    /\ UNCHANGED LEAGUE_ID

get_user(username) ==
    Invoke("get_user", [username |-> username], get_user_request(username))

get_user_leagues(user_id, sport, season) ==
    Invoke("get_user_leagues", [user_id |-> user_id, sport |-> sport, season |-> season],
           get_user_leagues_request(user_id, sport, season))

get_league(league_id) ==
    Invoke("get_league", [league_id |-> league_id], get_league_request(league_id))

get_league_rosters(league_id) ==
    Invoke("get_league_rosters", [league_id |-> league_id],
           get_league_rosters_request(league_id))

get_league_users(league_id) ==
    Invoke("get_league_users", [league_id |-> league_id], get_league_users_request(league_id))

get_league_matchups(league_id, week) ==
    Invoke("get_league_matchups", [league_id |-> league_id, week |-> week],
           get_league_matchups_request(league_id, week))

get_winners_bracket(league_id) ==
    Invoke("get_winners_bracket", [league_id |-> league_id],
           get_winners_bracket_request(league_id))

get_losers_bracket(league_id) ==
    Invoke("get_losers_bracket", [league_id |-> league_id],
           get_losers_bracket_request(league_id))

get_league_transactions(league_id, week) ==
    Invoke("get_league_transactions", [league_id |-> league_id, week |-> week],
           get_league_transactions_request(league_id, week))

get_traded_picks(league_id) ==
    Invoke("get_traded_picks", [league_id |-> league_id], get_traded_picks_request(league_id))

get_nfl_state == Invoke("get_nfl_state", <<>>, get_nfl_state_request)

get_user_drafts(user_id, sport, season) ==
    Invoke("get_user_drafts", [user_id |-> user_id, sport |-> sport, season |-> season],
           get_user_drafts_request(user_id, sport, season))

get_league_drafts(league_id) ==
    Invoke("get_league_drafts", [league_id |-> league_id], get_league_drafts_request(league_id))

get_draft(draft_id) ==
    Invoke("get_draft", [draft_id |-> draft_id], get_draft_request(draft_id))

get_draft_picks(draft_id) ==
    Invoke("get_draft_picks", [draft_id |-> draft_id], get_draft_picks_request(draft_id))

get_draft_traded_picks(draft_id) ==
    Invoke("get_draft_traded_picks", [draft_id |-> draft_id],
           get_draft_traded_picks_request(draft_id))

get_trending_players(trend_type, lookback_hours, limit) ==
    Invoke("get_trending_players",
           [trend_type |-> trend_type, lookback_hours |-> lookback_hours, limit |-> limit],
           get_trending_players_request(trend_type, lookback_hours, limit))

search_player_info(player_id) ==
    Invoke("search_player_info", [player_id |-> player_id],
           search_player_info_request(player_id))

(***************************************************************************)
(* Inputs: the callers' arguments and the remote's responses               *)
(***************************************************************************)
TrendTypes == {ADD, DROP, <<" ">> \o ADD, <<"A", "D", "D">>, <<>>}
Sports == {<<"nfl">>}
Seasons == {<<"2024">>}

Statuses == {404, 500}
ErrorBodies == {<<"league not found">>, <<>>}
TransportFailures == {<<"timed out">>, <<"Expecting value: line 1 column 1 (char 0)">>}

PLAYERS == <<"p1", "p2", "p3", "p4", "p5", "p6", "p7", "p8", "p9">>

\* a starters list of n player ids
Starters(n) == JList([i \in 1..n |-> JStr(<<PLAYERS[i]>>)])

Roster(id, n) ==
    JObj(<<P("roster_id", JNum(id)), P("owner_id", JStr(<<"u1">>)),
           P("settings", JObj(<<P("wins", JNum(3)), P("fpts", JNum(101))>>)),
           P("players", Starters(n)), P("starters", Starters(n))>>)

\* a matchups entry; matchup_id 0 stands for an entry without the key
Matchup(mid, rid, n) ==
    JObj((IF mid = 0 THEN <<>> ELSE <<P("matchup_id", JNum(mid))>>)
         \o <<P("roster_id", JNum(rid)), P("points", JNum(90 + rid)),
              P("starters", Starters(n))>>)

Pick(i) ==
    JObj(<<P("pick_no", JNum(i)), P("round", JNum(1 + ((i - 1) \div 12))),
           P("roster_id", JNum(1 + ((i - 1) % 12))),
           P("metadata", JObj(<<P("first_name", JStr(<<"F">>)), P("position", JStr(<<"RB">>))>>))>>
         \o (IF i % 2 = 0 THEN <<P("is_keeper", JBool(TRUE))>> ELSE <<>>))

Picks(n) == JList([i \in 1..n |-> Pick(i)])

Player == JObj(<<P("first_name", JStr(<<"Joe">>)), P("position", JStr(<<"QB">>)),
                 P("fantasy_positions", JList(<<JStr(<<"QB">>)>>)),
                 P("injury_status", JStr(<<"Out">>))>>)

\* JSON values the remote may answer with, of the expected shape or not
Samples == <<
    JNull, EmptyList, EmptyObj, JNum(5), JStr(<<"oops">>), JBool(TRUE),
    JList(<<JNull>>), JList(<<JNum(1)>>),
    JObj(<<P("name", JStr(<<"Dynasty">>)), P("username", JStr(<<"joe">>)),
           P("settings", JObj(<<P("playoff_teams", JNum(6)), P("teams", JNum(12))>>))>>),
    JObj(<<P("settings", JNum(1)), P("metadata", JNull)>>),
    JList(<<Roster(1, 2), Roster(2, 6)>>),
    JList(<<JObj(<<P("starters", JNull), P("metadata", JNull), P("type", JNull)>>)>>),
    JList(<<Matchup(2, 1, 1), Matchup(1, 2, 0), Matchup(2, 3, 6)>>),
    JList(<<JObj(<<P("matchup_id", EmptyList), P("adds", JList(<<JNum(1)>>))>>)>>),
    JList(<<JObj(<<P("type", JStr(<<"t", "r", "a", "d", "e">>)),
                   P("adds", JObj(<<P("p1", JNum(2))>>)),
                   P("draft_picks", JList(<<EmptyObj>>)),
                   P("w", JNum(3)), P("p", JNum(5)), P("is_owner", JBool(TRUE))>>)>>),
    Picks(2),
    JObj(<<[k |-> <<"a">>, v |-> Player], [k |-> <<"a", "a">>, v |-> JNull]>>),
    JObj(<<[k |-> <<"a">>, v |-> EmptyObj], [k |-> <<"a", "a">>, v |-> JNum(7)]>>) >>

fetch_ok == \E i \in 1..Len(Samples) : Complete(RespOk(Samples[i]))

fetch_http_error == \E s \in Statuses, b \in ErrorBodies : Complete(RespHttp(s, b))

fetch_transport_error == \E m \in TransportFailures : Complete(RespTransport(m))

\* the caller invokes any tool with any arguments, the fetch ends in any way
Next ==
    \/ pc = "idle" /\ \E username \in IdStrs : get_user(username)
    \/ pc = "idle" /\ \E user_id \in IdStrs, sport \in Sports, season \in Seasons :
          get_user_leagues(user_id, sport, season)
    \/ pc = "idle" /\ \E league_id \in IdStrs : get_league(league_id)
    \/ pc = "idle" /\ \E league_id \in IdStrs : get_league_rosters(league_id)
    \/ pc = "idle" /\ \E league_id \in IdStrs : get_league_users(league_id)
    \/ pc = "idle" /\ \E league_id \in IdStrs, week \in WeekStrs :
          get_league_matchups(league_id, week)
    \/ pc = "idle" /\ \E league_id \in IdStrs : get_winners_bracket(league_id)
    \/ pc = "idle" /\ \E league_id \in IdStrs : get_losers_bracket(league_id)
    \/ pc = "idle" /\ \E league_id \in IdStrs, week \in WeekStrs :
          get_league_transactions(league_id, week)
    \/ pc = "idle" /\ \E league_id \in IdStrs : get_traded_picks(league_id)
    \/ get_nfl_state
    \/ pc = "idle" /\ \E user_id \in IdStrs, sport \in Sports, season \in Seasons :
          get_user_drafts(user_id, sport, season)
    \/ pc = "idle" /\ \E league_id \in IdStrs : get_league_drafts(league_id)
    \/ pc = "idle" /\ \E draft_id \in IdStrs : get_draft(draft_id)
    \/ pc = "idle" /\ \E draft_id \in IdStrs : get_draft_picks(draft_id)
    \/ pc = "idle" /\ \E draft_id \in IdStrs : get_draft_traded_picks(draft_id)
    \/ pc = "idle" /\ \E trend_type \in TrendTypes, lookback_hours \in NumStrs,
                          limit \in NumStrs :
          get_trending_players(trend_type, lookback_hours, limit)
    \/ pc = "idle" /\ \E player_id \in IdStrs : search_player_info(player_id)
    \/ fetch_ok
    \/ fetch_http_error
    \/ fetch_transport_error
    \/ tool_returned

Spec == Init /\ [][Next]_vars

(***************************************************************************)
(* The formatting of large responses: the rosters, matchups and draft      *)
(* picks tools called with their usual arguments, answered with every      *)
(* list of the bounded shapes below.                                       *)
(***************************************************************************)
MatchupIdSeqs == UNION {[1..k -> 0..2] : k \in 1..MaxMatchups}

\* entry i has matchup id ids[i] (0: none), roster id i and a starters list
\* whose length varies with i
MatchupList(ids, shift) ==
    JList([i \in 1..Len(ids) |-> Matchup(ids[i], i, (i + shift) % (MaxStarters + 1))])

fetch_rosters ==
    /\ tool = "get_league_rosters"
    /\ \E n1 \in 0..MaxStarters, n2 \in 0..MaxStarters :
          Complete(RespOk(JList(<<Roster(1, n1), Roster(2, n2)>>)))

fetch_matchups ==
    /\ tool = "get_league_matchups"
    /\ \E ids \in MatchupIdSeqs, shift \in 0..MaxStarters :
          Complete(RespOk(MatchupList(ids, shift)))

fetch_picks ==
    /\ tool = "get_draft_picks"
    /\ \E n \in 0..MaxPicks : Complete(RespOk(Picks(n)))

InitFormat == Init /\ LEAGUE_ID = <<"L">>

NextFormat ==
    \/ get_league_rosters(<<>>)
    \/ get_league_matchups(<<>>, <<"1">>)
    \/ get_draft_picks(<<"a">>)
    \/ fetch_rosters
    \/ fetch_matchups
    \/ fetch_picks
    \/ tool_returned

SpecFormat == InitFormat /\ [][NextFormat]_vars

(***************************************************************************)
(* Properties                                                              *)
(***************************************************************************)
LeagueTools == {"get_league", "get_league_rosters", "get_league_users",
                "get_league_matchups", "get_winners_bracket", "get_losers_bracket",
                "get_league_transactions", "get_traded_picks", "get_league_drafts"}
WeekTools == {"get_league_matchups", "get_league_transactions"}

\* empty, or whitespace only
Blank(s) == \A i \in 1..Len(s) : IsSpace(s[i])

Called == pc # "idle"

ReturnedText(text) == pc = "returned" /\ result = [k |-> "text", text |-> text]

\* text holds part as a run of consecutive atoms
Contains(text, part) ==
    \E i \in 0..(Len(text) - Len(part)) : SubSeq(text, i + 1, i + Len(part)) = part

\* the atoms of text that directly follow the atom label
AtomsAfter(text, label) ==
    LET at == SelectSeq([i \in 1..Len(text) |-> i],
                        LAMBDA i : i < Len(text) /\ text[i] = label)
    IN  [j \in 1..Len(at) |-> text[at[j] + 1]]

PathAtoms == {"/rosters", "/users", "/matchups/", "/winners_bracket", "/losers_bracket",
              "/transactions/", "/traded_picks", "/drafts"}

\* the league identifier in a /league/ URL: what stands between "/league/"
\* and the next path element
UrlLeagueId ==
    LET stop == IF \E i \in 3..Len(url) : url[i] \in PathAtoms
                THEN CHOOSE i \in 3..Len(url) : url[i] \in PathAtoms
                ELSE Len(url) + 1
    IN  SubSeq(url, 3, stop - 1)

\* C1: a league tool called with a league_id that is empty after trimming,
\* while the default league is empty, returns the missing-league-id error
\* and has issued no request.
C1_MissingLeagueFailsBeforeFetch ==
    (Called /\ tool \in LeagueTools /\ Blank(args.league_id) /\ Len(LEAGUE_ID) = 0)
        => (ReturnedText(LEAGUE_REQUIRED) /\ fetches = 0 /\ outcome = "missing")

C1_Witness ==
    /\ pc = "returned"
    /\ tool = "get_league_matchups"
    /\ args.league_id = <<" ", " ">>
    /\ args.week = <<"a">>
    /\ Len(LEAGUE_ID) = 0

\* C2 as stated: with a blank league_id and a non-empty default, a request
\* carries the default itself as its league identifier.
C2_UrlCarriesDefaultVerbatim ==
    (Called /\ tool \in LeagueTools /\ Blank(args.league_id) /\ Len(LEAGUE_ID) > 0
        /\ fetches = 1)
        => UrlLeagueId = LEAGUE_ID

\* C2 amended: with a blank league_id the request carries the default with
\* its surrounding whitespace removed, and a default that is blank counts as
\* none (the missing-league-id error, no request); a league_id that is not
\* blank is carried trimmed, whatever the default.
C2_UrlCarriesTrimmedDefault ==
    (Called /\ tool \in LeagueTools) =>
        /\ (Blank(args.league_id) /\ Blank(LEAGUE_ID)) =>
              (ReturnedText(LEAGUE_REQUIRED) /\ fetches = 0)
        /\ (Blank(args.league_id) /\ ~Blank(LEAGUE_ID)) =>
              /\ fetches = 1 => UrlLeagueId = strip(LEAGUE_ID)
              /\ tool \notin WeekTools => fetches = 1
        /\ ~Blank(args.league_id) =>
              /\ fetches = 1 => UrlLeagueId = strip(args.league_id)
              /\ tool \notin WeekTools => fetches = 1

C2_Witness ==
    /\ pc = "fetching"
    /\ tool = "get_league_rosters"
    /\ args.league_id = <<" ">>
    /\ LEAGUE_ID = <<" ", "L">>
    /\ url = <<BASE_URL, "/league/", "L", "/rosters">>

TREND_TYPE_INVALID == <<FAIL, " Error: trend_type must be 'add' or 'drop'">>
NUMBERS_INVALID == <<FAIL, " Error: lookback_hours and limit must be valid numbers">>

\* C3: get_trending_players with a trend_type other than exactly "add" or
\* "drop" returns the invalid-argument error without a request, whatever
\* lookback_hours and limit are.
C3_BadTrendTypeRejected ==
    (Called /\ tool = "get_trending_players" /\ args.trend_type \notin {ADD, DROP})
        => (ReturnedText(TREND_TYPE_INVALID) /\ fetches = 0 /\ outcome = "invalid")

C3_Witness ==
    /\ pc = "returned"
    /\ tool = "get_trending_players"
    /\ args.trend_type = <<" ", "a", "d", "d">>
    /\ args.lookback_hours = <<"2">>
    /\ args.limit = <<>>

Unparsable(s) == ~int_ok(s)

\* C4 as stated: a lookback_hours or limit that is non-empty and does not
\* parse as an integer gives the invalid-argument error and no request.
C4_NonEmptyUnparsableRejected ==
    (Called /\ tool = "get_trending_players" /\ args.trend_type \in {ADD, DROP}
        /\ \/ Len(args.lookback_hours) > 0 /\ Unparsable(args.lookback_hours)
           \/ Len(args.limit) > 0 /\ Unparsable(args.limit))
        => (ReturnedText(NUMBERS_INVALID) /\ fetches = 0)

\* C4 amended: a lookback_hours or limit that is not blank (non-empty after
\* trimming) and does not parse as an integer gives the invalid-argument
\* error and no request; a blank lookback_hours gives exactly the request of
\* lookback_hours = "24", a blank limit exactly the request of limit = "25".
C4_UnparsableRejectedBlankDefaulted ==
    (Called /\ tool = "get_trending_players" /\ args.trend_type \in {ADD, DROP}) =>
        LET lb == args.lookback_hours
            lm == args.limit
            bad(s) == ~Blank(s) /\ Unparsable(s)
        IN  /\ (bad(lb) \/ bad(lm)) =>
                  (ReturnedText(NUMBERS_INVALID) /\ fetches = 0 /\ outcome = "invalid")
            /\ (~bad(lb) /\ ~bad(lm)) => fetches = 1
            /\ (fetches = 1 /\ Blank(lb)) =>
                  url = get_trending_players_request(args.trend_type, <<"2", "4">>, lm).url
            /\ (fetches = 1 /\ Blank(lm)) =>
                  url = get_trending_players_request(args.trend_type, lb, <<"2", "5">>).url

C4_Witness ==
    /\ pc = "fetching"
    /\ tool = "get_trending_players"
    /\ args.trend_type = DROP
    /\ args.lookback_hours = <<" ">>
    /\ args.limit = <<"2", "2">>
    /\ url = <<BASE_URL, "/players/nfl/trending/", "d", "r", "o", "p",
               "?lookback_hours=", "24", "&limit=", "22">>

\* C5: when the remote answers with a non-2xx status S and body B, the tool
\* returns an error report that holds S and B verbatim and reads as an API
\* error, not as a failed request.
C5_StatusErrorReported ==
    (pc = "returned" /\ resp.kind = "http") =>
        /\ result.k = "text"
        /\ result.text[1] = FAIL
        /\ Contains(result.text, <<"API Error ">> \o str_int(resp.status))
        /\ Contains(result.text, resp.body)
        /\ ~Contains(result.text, <<"Request failed: ">>)
        /\ outcome = "remote"

C5_Witness ==
    /\ pc = "returned"
    /\ tool = "get_league"
    /\ resp = RespHttp(404, <<"league not found">>)
    /\ result.text = <<FAIL, " Error: ", "API Error ", "404", ": ", "league not found">>

Failures == {"missing", "invalid", "transport", "remote", "format"}

\* C6: every invocation ends with a text result, never with an exception
\* reaching the caller, and the text of a failure (missing parameter,
\* invalid argument, transport error, remote API error, error while
\* formatting) begins with the failure marker.
C6_AlwaysTextFailuresMarked ==
    pc = "returned" =>
        /\ result.k = "text"
        /\ outcome \in Failures => (Len(result.text) > 0 /\ result.text[1] = FAIL)

C6_Witness ==
    /\ pc = "returned"
    /\ tool = "get_nfl_state"
    /\ resp = RespOk(JNull)
    /\ outcome = "format"
    /\ result.k = "text"
    /\ result.text[1] = FAIL

\* C10 as stated: on a fetched player directory, search_player_info answers
\* "Player ID ... not found" exactly when player_id is not a key of it.
C10_NotFoundIffKeyAbsent ==
    (pc = "returned" /\ tool = "search_player_info" /\ resp.kind = "ok" /\ IsObj(resp.json))
        => (result.text = PLAYER_NOT_FOUND(args.player_id)
               <=> ~HasKey(resp.json, args.player_id))

\* the fetched list, once a tool has returned on a non-empty list
Raw == resp.json.v

FormattedList(t) ==
    pc = "returned" /\ tool = t /\ resp.kind = "ok" /\ resp.json.t = "list" /\ Len(Raw) > 0

\* the matchup_id of a raw entry as it prints ("None" when the key is absent)
IdAtom(m) == PyStr(Get(m, "matchup_id", JNull))[1]

Indices(raw) == [i \in 1..Len(raw) |-> i]

\* the entries where a matchup_id occurs for the first time
FirstSeen(raw) ==
    SelectSeq(Indices(raw),
              LAMBDA i : \A j \in 1..(i - 1) : IdAtom(raw[j]) # IdAtom(raw[i]))

\* the entries that share the matchup_id of entry i
MembersOf(raw, i) == SelectSeq(Indices(raw), LAMBDA j : IdAtom(raw[j]) = IdAtom(raw[i]))

\* the group headings and team lines of a matchups report, in order
Outline(text) ==
    LET at == SelectSeq(Indices(text),
                        LAMBDA i : i < Len(text) /\ text[i] \in {"Matchup ", "  Roster "})
    IN  [j \in 1..Len(at) |-> <<text[at[j]], text[at[j] + 1]>>]

GroupOutline(raw, i) ==
    <<<<"Matchup ", IdAtom(raw[i])>>>>
       \o [j \in 1..Len(MembersOf(raw, i)) |->
             <<"  Roster ", PyStr(Get(raw[MembersOf(raw, i)[j]], "roster_id", NA))[1]>>]

ExpectedOutline(raw) ==
    LET first == FirstSeen(raw)
    IN  Concat([g \in 1..Len(first) |-> GroupOutline(raw, first[g])], 1, Len(first))

\* C7: the matchups report has one group per distinct matchup_id, the groups
\* in the order in which the ids first occur in the raw list, and under each
\* group exactly the raw entries of that id, in their raw order.
C7_GroupsInFirstSeenOrder ==
    FormattedList("get_league_matchups") =>
        (result.k = "text" /\ Outline(result.text) = ExpectedOutline(Raw))

C7_Witness ==
    /\ FormattedList("get_league_matchups")
    /\ [i \in 1..Len(Raw) |-> IdAtom(Raw[i])] = <<"2", "1", "2", "1">>
    /\ Outline(result.text) = << <<"Matchup ", "2">>, <<"  Roster ", "1">>, <<"  Roster ", "3">>,
                                 <<"Matchup ", "1">>, <<"  Roster ", "2">>, <<"  Roster ", "4">> >>

PlayerAtoms == {PLAYERS[i] : i \in 1..Len(PLAYERS)}

\* the player ids and ellipsis markers of a report, in order
Shown(text) == SelectSeq(text, LAMBDA a : a \in PlayerAtoms \cup {"..."})

StartersOf(entry) == Get(entry, "starters", EmptyList).v

\* the first min(n, 5) starters, then the marker if n > 5
ExpectedStarters(entry) ==
    LET st == StartersOf(entry)
        n == Len(st)
    IN  [i \in 1..(IF n < 5 THEN n ELSE 5) |-> st[i].v[1]]
           \o (IF n > 5 THEN <<"...">> ELSE <<>>)

\* the raw entries in the order the matchups report renders them
RenderOrder(raw) ==
    LET first == FirstSeen(raw)
    IN  Concat([g \in 1..Len(first) |-> MembersOf(raw, first[g])], 1, Len(first))

\* C8: the starters line of a roster and of a matchup team lists the first
\* min(n, 5) of its n starters in order, followed by "..." iff n > 5.
C8_StartersLineTruncated ==
    /\ FormattedList("get_league_rosters") =>
          (result.k = "text"
             /\ Shown(result.text)
                  = Concat([i \in 1..Len(Raw) |-> ExpectedStarters(Raw[i])], 1, Len(Raw)))
    /\ FormattedList("get_league_matchups") =>
          (result.k = "text"
             /\ Shown(result.text)
                  = LET order == RenderOrder(Raw)
                    IN  Concat([i \in 1..Len(order) |-> ExpectedStarters(Raw[order[i]])],
                               1, Len(order)))

C8_Witness ==
    /\ FormattedList("get_league_rosters")
    /\ Len(StartersOf(Raw[1])) = 7
    /\ Len(StartersOf(Raw[2])) = 3
    /\ Shown(result.text) = <<"p1", "p2", "p3", "p4", "p5", "...", "p1", "p2", "p3">>

\* C9: the draft picks report of n > 0 picks renders the first min(n, 50)
\* picks in order; its last line tells that n - 50 more picks were left out
\* iff n > 50; its header tells n.
C9_PicksTruncatedAtFifty ==
    FormattedList("get_draft_picks") =>
        LET n == Len(Raw)
            text == result.text
        IN  /\ result.k = "text"
            /\ SubSeq(text, 1, 3) = <<"Draft Picks (", ToString(n), " total):\n\n">>
            /\ AtomsAfter(text, "Pick ")
                  = [i \in 1..(IF n < 50 THEN n ELSE 50) |-> PyStr(Get(Raw[i], "pick_no", NA))[1]]
            /\ (n > 50) <=> (\E i \in 1..Len(text) : text[i] = "... and ")
            /\ (n > 50) =>
                  SubSeq(text, Len(text) - 2, Len(text))
                     = <<"... and ", ToString(n - 50), " more picks\n">>

C9_Witness ==
    /\ FormattedList("get_draft_picks")
    /\ Len(Raw) = 63
    /\ Len(AtomsAfter(result.text, "Pick ")) = 50
    /\ SubSeq(result.text, Len(result.text) - 2, Len(result.text))
          = <<"... and ", "13", " more picks\n">>


\* the failures a request can end in: a status error, a transport failure
FailedResponse(r) == r.kind \in {"http", "transport"}

\* C11: an invocation issues at most one GET. A request is issued only by a
\* step that starts an invocation; the step that follows the request ends
\* the invocation without another request, and when the request failed the
\* invocation returns the error report of that failure.
C11_OneGetNoRetry ==
    [][/\ fetches' <= 1
       /\ fetches' > fetches => (pc = "idle" /\ pc' = "fetching")
       /\ pc = "fetching" =>
             /\ fetches = 1 /\ fetches' = 1
             /\ pc' = "returned"
             /\ FailedResponse(resp') =>
                   result' = [k |-> "text",
                              text |-> <<FAIL, " Error: ">> \o fetch_json(resp').msg]]_vars

C11_Witness ==
    /\ pc = "returned"
    /\ tool = "get_nfl_state"
    /\ fetches = 1
    /\ resp = RespTransport(<<"timed out">>)
    /\ result = [k |-> "text",
                 text |-> <<FAIL, " Error: ", "Request failed: ", "timed out">>]


\* the default or the argument gives a league identifier
LeagueResolvable == ~Blank(args.league_id) \/ ~Blank(LEAGUE_ID)

\* the invocation has ended in an error message without any request
FailedBeforeFetch ==
    /\ pc = "returned"
    /\ fetches = 0
    /\ result.k = "text"
    /\ Len(result.text) > 0
    /\ result.text[1] = FAIL

\* C12 as stated: the matchups and transactions tools, given a league and a
\* week that is non-empty but is not an integer, fail with an error message
\* and issue no request. (Any error message is accepted here, whatever it
\* names.)
C12_NonIntegerWeekRejected ==
    (Called /\ tool \in WeekTools /\ LeagueResolvable
        /\ Len(args.week) > 0 /\ ~int_ok(args.week))
        => FailedBeforeFetch


\* the league identifier of a call whose arguments are trimmed
TrimmedLeague ==
    IF Blank(args.league_id) THEN strip(LEAGUE_ID) ELSE strip(args.league_id)

\* the path after /league/{id} of each tool that takes a league
LeaguePath ==
    CASE tool = "get_league" -> <<>>
      [] tool = "get_league_rosters" -> <<"/rosters">>
      [] tool = "get_league_users" -> <<"/users">>
      [] tool = "get_league_matchups" -> <<"/matchups/">> \o strip(args.week)
      [] tool = "get_winners_bracket" -> <<"/winners_bracket">>
      [] tool = "get_losers_bracket" -> <<"/losers_bracket">>
      [] tool = "get_league_transactions" -> <<"/transactions/">> \o strip(args.week)
      [] tool = "get_traded_picks" -> <<"/traded_picks">>
      [] OTHER -> <<"/drafts">>

DraftTools == {"get_draft", "get_draft_picks", "get_draft_traded_picks"}

DraftPath ==
    CASE tool = "get_draft" -> <<>>
      [] tool = "get_draft_picks" -> <<"/picks">>
      [] OTHER -> <<"/traded_picks">>

UserTools == {"get_user_leagues", "get_user_drafts"}

UserPath ==
    (IF tool = "get_user_leagues" THEN <<"/leagues/">> ELSE <<"/drafts/">>)
        \o args.sport \o <<"/">> \o args.season

\* the URL of the call made with every identifier argument trimmed
TrimmedUrl ==
    CASE tool = "get_user" -> <<BASE_URL, "/user/">> \o strip(args.username)
      [] tool \in UserTools -> <<BASE_URL, "/user/">> \o strip(args.user_id) \o UserPath
      [] tool \in LeagueTools -> <<BASE_URL, "/league/">> \o TrimmedLeague \o LeaguePath
      [] tool \in DraftTools -> <<BASE_URL, "/draft/">> \o strip(args.draft_id) \o DraftPath
      [] OTHER -> url

\* the player directory has been fetched and looked into
PlayerLookedUp ==
    /\ pc = "returned"
    /\ tool = "search_player_info"
    /\ resp.kind = "ok"
    /\ IsObj(resp.json)

\* C13 as stated: the identifier a tool puts into the URL of its request is
\* its argument with the surrounding whitespace removed, and the player
\* directory is looked up under the trimmed player_id.
C13_IdentifiersTrimmed ==
    /\ (Called /\ fetches = 1) => url = TrimmedUrl
    /\ PlayerLookedUp =>
          (result = [k |-> "text", text |-> PLAYER_NOT_FOUND(args.player_id)]
              <=> player_missing(resp.json, strip(args.player_id)))

=============================================================================
